---- MODULE Spec2Model ----
(***************************************************************************)
(* Annotation hierarchy traversal of OpenContracts                         *)
(* (config/graphql/graphene_types.py): the relay global-id codec, the      *)
(* flattener build_flat_tree and the three tree resolvers of               *)
(* AnnotationType.                                                         *)
(*                                                                         *)
(* Conventions.  A Python str is a sequence of one-character strings.      *)
(* Python's None is the value None below, which lies outside every id      *)
(* domain.  A Python value whose type matters is a record [py, v].         *)
(***************************************************************************)
EXTENDS Integers, Sequences, FiniteSets, TLC

VARIABLES
    population,   \* rows of the Annotation table: [id, parent_id, raw_text]
    self,         \* the in-memory Annotation instance a resolver runs on
    reply,        \* what the last tree resolver returned, or raised
    nodes,        \* the argument of build_flat_tree
    node_list,    \* the list build_flat_tree returned
    type_,        \* codec: the type name handed to to_global_id
    id_,          \* codec: the internal id handed to to_global_id
    global_id,    \* codec: the external id to_global_id returned
    resolved,     \* codec: what from_global_id returned for global_id
    frame,        \* the locals of a tree resolver that runs statement by statement
    annotation_set, \* rows of the related manager a filtering resolver starts from
    request,      \* the filtering resolver called and its arguments
    response,     \* what the filtering resolver returned, or raised
    visible,      \* ids of the annotations visible_to_user(info.context.user)
    previous,     \* the reply of the call before, on the same population
    corpus_actions, \* rows of the CorpusAction table: [id, fieldset, analyzer, trigger]
    corpus_action,  \* the in-memory CorpusAction instance save is called on
    saved           \* what the last CorpusAction.save returned, or raised

vars == <<population, self, reply, nodes, node_list, type_, id_, global_id, resolved,
          frame, annotation_set, request, response, visible, previous,
          corpus_actions, corpus_action, saved>>

treeVars == <<population, self, reply>>
flatVars == <<nodes, node_list>>
codecVars == <<type_, id_, global_id, resolved>>
apiVars == <<annotation_set, request, response>>
actionVars == <<corpus_actions, corpus_action, saved>>
restVars == <<frame, annotation_set, request, response, visible, previous, actionVars>>

(***************************************************************************)
(* Bounds of the model.                                                    *)
(***************************************************************************)
\* Tree specification: internal ids are 0..MaxId.
MaxId == 3
\* Flattener specification: ids are 0..MaxFlatId.
MaxFlatId == 1
\* Flattener specification: longest input list.
MaxLen == 3
\* Statement-level specifications: internal ids are 0..MaxWalkId.
MaxWalkId == 2
\* Filtering resolvers: the related manager holds rows 1..MaxApiId at most.
MaxApiId == 3
\* Codec specification: ids are 0..MaxCodecId.
MaxCodecId == 40

None == -1

\* The outcome of a call: not made yet, a returned value, a raised exception.
NotRun == [not_run |-> TRUE]
Returned(val) == [returned |-> val]
Raised(exc) == [raised |-> exc]
HasReturned(outcome) == "returned" \in DOMAIN outcome
HasRaised(outcome) == "raised" \in DOMAIN outcome

\* No Annotation instance is in memory.
NoInstance == [not_loaded |-> TRUE]

(***************************************************************************)
(* Python values and strings.                                              *)
(***************************************************************************)
PyInt(n) == [py |-> "int", v |-> n]
PyStr(s) == [py |-> "str", v |-> s]

\* Python's == on two typed values: an int never equals a str.
PyEq(a, b) == a.py = b.py /\ a.v = b.v

Digits == <<"0", "1", "2", "3", "4", "5", "6", "7", "8", "9">>

RECURSIVE str(_)
\* str(n) of a non-negative int: its decimal digits.
str(n) == IF n < 10 THEN <<Digits[n + 1]>>
          ELSE str(n \div 10) \o <<Digits[(n % 10) + 1]>>

IsDigit(c) == \E i \in 1..10 : Digits[i] = c

DigitValue(c) == (CHOOSE i \in 1..10 : Digits[i] = c) - 1

RECURSIVE int(_)
\* int(s) of a non-empty string of decimal digits.
int(s) == IF Len(s) = 1 THEN DigitValue(s[1])
          ELSE 10 * int(SubSeq(s, 1, Len(s) - 1)) + DigitValue(s[Len(s)])

\* The printable ASCII characters, code 32 (space) to 126 (tilde); the grave
\* accent (code 96) is written "GRAVE".
AsciiPrintable ==
    <<" ", "!", "\"", "#", "$", "%", "&", "'", "(", ")", "*", "+", ",", "-", ".", "/",
      "0", "1", "2", "3", "4", "5", "6", "7", "8", "9", ":", ";", "<", "=", ">", "?",
      "@", "A", "B", "C", "D", "E", "F", "G", "H", "I", "J", "K", "L", "M", "N", "O",
      "P", "Q", "R", "S", "T", "U", "V", "W", "X", "Y", "Z", "[", "\\", "]", "^", "_",
      "GRAVE", "a", "b", "c", "d", "e", "f", "g", "h", "i", "j", "k", "l", "m", "n", "o",
      "p", "q", "r", "s", "t", "u", "v", "w", "x", "y", "z", "{", "|", "}", "~">>

ord(c) == 31 + (CHOOSE i \in 1..Len(AsciiPrintable) : AsciiPrintable[i] = c)
chr(n) == AsciiPrintable[n - 31]

B64Alphabet ==
    <<"A", "B", "C", "D", "E", "F", "G", "H", "I", "J", "K", "L", "M", "N", "O", "P",
      "Q", "R", "S", "T", "U", "V", "W", "X", "Y", "Z", "a", "b", "c", "d", "e", "f",
      "g", "h", "i", "j", "k", "l", "m", "n", "o", "p", "q", "r", "s", "t", "u", "v",
      "w", "x", "y", "z", "0", "1", "2", "3", "4", "5", "6", "7", "8", "9", "+", "/">>

B64Char(n) == B64Alphabet[n + 1]
B64Value(c) == (CHOOSE i \in 1..Len(B64Alphabet) : B64Alphabet[i] = c) - 1

RECURSIVE base64(_)
\* base64 of an ASCII string: three bytes become four characters, the last
\* group is padded with "=".
base64(s) ==
    IF Len(s) = 0 THEN <<>>
    ELSE IF Len(s) = 1 THEN
        LET n == ord(s[1]) * 65536
        IN  <<B64Char(n \div 262144), B64Char((n \div 4096) % 64), "=", "=">>
    ELSE IF Len(s) = 2 THEN
        LET n == ord(s[1]) * 65536 + ord(s[2]) * 256
        IN  <<B64Char(n \div 262144), B64Char((n \div 4096) % 64),
              B64Char((n \div 64) % 64), "=">>
    ELSE
        LET n == ord(s[1]) * 65536 + ord(s[2]) * 256 + ord(s[3])
        IN  <<B64Char(n \div 262144), B64Char((n \div 4096) % 64),
              B64Char((n \div 64) % 64), B64Char(n % 64)>>
            \o base64(SubSeq(s, 4, Len(s)))

RECURSIVE unbase64(_)
\* The inverse transformation on a well-formed base64 string.
unbase64(s) ==
    IF Len(s) = 0 THEN <<>>
    ELSE IF s[3] = "=" THEN
        LET n == B64Value(s[1]) * 262144 + B64Value(s[2]) * 4096
        IN  <<chr(n \div 65536)>>
    ELSE IF s[4] = "=" THEN
        LET n == B64Value(s[1]) * 262144 + B64Value(s[2]) * 4096 + B64Value(s[3]) * 64
        IN  <<chr(n \div 65536), chr((n \div 256) % 256)>>
    ELSE
        LET n == B64Value(s[1]) * 262144 + B64Value(s[2]) * 4096
                 + B64Value(s[3]) * 64 + B64Value(s[4])
        IN  <<chr(n \div 65536), chr((n \div 256) % 256), chr(n % 256)>>
            \o unbase64(SubSeq(s, 5, Len(s)))

(***************************************************************************)
(* The relay global-id codec (graphql_relay).                              *)
(***************************************************************************)
AnnotationTypeName == <<"A", "n", "n", "o", "t", "a", "t", "i", "o", "n", "T", "y", "p", "e">>
CorpusTypeName == <<"C", "o", "r", "p", "u", "s", "T", "y", "p", "e">>
AnalysisTypeName == <<"A", "n", "a", "l", "y", "s", "i", "s", "T", "y", "p", "e">>

TypeNames == {AnnotationTypeName, CorpusTypeName, AnalysisTypeName}

\* to_global_id(type, id): base64 of "type:id"; an int id is written with
\* str(), a str id as it is.
to_global_id(t, i) ==
    base64(t \o <<":">> \o (IF i.py = "int" THEN str(i.v) ELSE i.v))

\* Position of the first ":" of s, 0 when s has none.
FirstColon(s) ==
    IF \E i \in 1..Len(s) : s[i] = ":"
    THEN CHOOSE i \in 1..Len(s) : s[i] = ":" /\ \A j \in 1..(i - 1) : s[j] # ":"
    ELSE 0

\* from_global_id that leaves the ":" at the head of the id part.
from_global_id_keep_colon(g) ==
    LET u == unbase64(g)
        k == FirstColon(u)
    IN  [type |-> SubSeq(u, 1, k - 1), id |-> PyStr(SubSeq(u, k, Len(u)))]

\* from_global_id(global_id): unbase64, split once at the first ":";
\* the type and the id are both returned as str.
from_global_id(g) ==
    LET u == unbase64(g)
        k == FirstColon(u)
    IN  [type |-> SubSeq(u, 1, k - 1), id |-> PyStr(SubSeq(u, k + 1, Len(u)))]

(***************************************************************************)
(* The flattener.                                                          *)
(***************************************************************************)
Texts == {"a", "b"}

Max(a, b) == IF a > b THEN a ELSE b

\* Python truthiness of an id or None: None and 0 are falsy.
Truthy(val) == val # None /\ val # 0

\* `parent_id is not None`, the test the resolvers use.
IsNotNone(val) == val # None

\* dict.get(key, default) on a dict modelled as a function.
Get(d, key, default) == IF key \in DOMAIN d THEN d[key] ELSE default

\* d.setdefault(key, []).append(val)
SetDefaultAppend(d, key, val) ==
    [k \in DOMAIN d \cup {key} |->
        IF k = key THEN Get(d, key, <<>>) \o <<val>> ELSE d[k]]

EmptyDict == [k \in {} |-> <<>>]

RECURSIVE id_to_children(_, _)
\* The dict id_to_children after the first loop has scanned ns[1..k].
id_to_children(ns, k) ==
    IF k = 0 THEN EmptyDict
    ELSE LET d == id_to_children(ns, k - 1)
             node_id == ns[k].id
             parent_id == ns[k].parent_id
         IN  IF Truthy(parent_id)
             THEN SetDefaultAppend(d, parent_id, node_id)
             ELSE d

\* The table of global ids under the type name "Annotation".
AnnotationGlobalIdsTagAnnotation ==
    [i \in 0..Max(MaxId, MaxFlatId) |->
        to_global_id(<<"A", "n", "n", "o", "t", "a", "t", "i", "o", "n">>, PyInt(i))]

\* to_global_id("AnnotationType", i) for every id of the model, computed once.
AnnotationGlobalIds ==
    [i \in 0..Max(MaxId, MaxFlatId) |-> to_global_id(AnnotationTypeName, PyInt(i))]

AnnotationGlobalId(i) == AnnotationGlobalIds[i]

\* build_flat_tree that keeps one record per id: a later node whose id has
\* already been emitted is skipped.
build_flat_tree_one_per_id(ns) ==
    LET d == id_to_children(ns, Len(ns))
        firsts == SelectSeq([i \in 1..Len(ns) |-> [pos |-> i, node |-> ns[i]]],
                            LAMBDA e : \A j \in 1..(e.pos - 1) : ns[j].id # e.node.id)
    IN  [i \in 1..Len(firsts) |->
            LET children_ids == Get(d, firsts[i].node.id, <<>>)
            IN  [id |-> AnnotationGlobalId(firsts[i].node.id),
                 raw_text |-> firsts[i].node.raw_text,
                 children |-> [j \in 1..Len(children_ids) |->
                                  AnnotationGlobalId(children_ids[j])]]]

\* build_flat_tree(nodes): one dict per node, in order, with the global ids
\* of the node and of its children in id_to_children.
build_flat_tree(ns) ==
    LET d == id_to_children(ns, Len(ns))
    IN  [i \in 1..Len(ns) |->
            LET children_ids == Get(d, ns[i].id, <<>>)
            IN  [id |-> AnnotationGlobalId(ns[i].id),
                 raw_text |-> ns[i].raw_text,
                 children |-> [j \in 1..Len(children_ids) |->
                                  AnnotationGlobalId(children_ids[j])]]]

(***************************************************************************)
(* The Annotation table and the queries the resolvers run on it.           *)
(***************************************************************************)
Ids == 0..MaxId

\* The raw_text column; the traversal never reads it.
RawTextOf(i) == IF i % 2 = 0 THEN "a" ELSE "b"

PopulationIds == {r.id : r \in population}

\* Annotation.objects.get(pk=pk), for a pk that exists.
Row(pk) == CHOOSE r \in population : r.id = pk

\* The in-memory instance of a row: the fields the resolvers read.
Instance(pk) == [id |-> Row(pk).id, parent_id |-> Row(pk).parent_id]

\* The instance in memory still equals its row.
Fresh(inst) ==
    /\ inst # NoInstance
    /\ inst.id \in PopulationIds
    /\ Row(inst.id).parent_id = inst.parent_id

RECURSIVE SeqOfRows(_)
\* The rows of a set as a list, by ascending id.
SeqOfRows(S) ==
    IF S = {} THEN <<>>
    ELSE LET r == CHOOSE x \in S : \A y \in S : x.id <= y.id
         IN  <<r>> \o SeqOfRows(S \ {r})

\* Annotation.objects.filter(parent_id=pk).values("id", "parent_id", "raw_text")
FilterParentId(pk) == SeqOfRows({r \in population : r.parent_id = pk})

\* Annotation.objects.filter(id=pk).values(...)
FilterId(pk) == SeqOfRows({r \in population : r.id = pk})

\* Annotation.objects.filter(id__in=pks).values(...)
FilterIdIn(pks) == SeqOfRows({r \in population : r.id \in pks})

RECURSIVE JoinChildren(_)
\* cte.join(Annotation, parent_id=cte.col.id): one row per pair of a row of
\* the working table and an Annotation whose parent_id is that row's id.
JoinChildren(working) ==
    IF working = <<>> THEN <<>>
    ELSE FilterParentId(Head(working).id) \o JoinChildren(Tail(working))

RECURSIVE RecursiveUnionAll(_, _)
\* The recursive step of WITH RECURSIVE ... UNION ALL: the rows joined to
\* the working table become the next working table, until none is produced.
RecursiveUnionAll(working, result) ==
    IF working = <<>> THEN result
    ELSE LET step == JoinChildren(working)
         IN  RecursiveUnionAll(step, result \o step)

\* A CTE whose recursive member is joined once only.
WithRecursiveOneLevel(base_qs) == base_qs \o JoinChildren(base_qs)

\* With.recursive(make_cte) for base_qs.union(recursive_qs, all=True).
WithRecursive(base_qs) == RecursiveUnionAll(base_qs, base_qs)

RECURSIVE OrderByIdFrom(_, _)
OrderByIdFrom(rows, i) ==
    IF i > MaxId THEN <<>>
    ELSE SelectSeq(rows, LAMBDA r : r.id = i) \o OrderByIdFrom(rows, i + 1)

\* The rows in the order the query produced them, with no ORDER BY applied.
OrderByNothing(rows) == rows

\* .order_by("id")
OrderById(rows) == OrderByIdFrom(rows, 0)

\* The orders in which a query without ORDER BY may return its rows.
Orderings(rows) ==
    {[i \in 1..Len(rows) |-> rows[p[i]]] : p \in Permutations(1..Len(rows))}

(***************************************************************************)
(* The tree resolvers of AnnotationType.                                   *)
(***************************************************************************)
\* get_descendants seeded with the instance's own row instead of its children.
get_descendants_with_self(inst) == WithRecursive(FilterId(inst.id))

\* get_descendants(cte): the children of self, then recursively theirs.
get_descendants(inst) == WithRecursive(FilterParentId(inst.id))

\* resolve_descendants_tree that looks its own row up first.
resolve_descendants_tree_checked(inst) ==
    IF inst.id \in PopulationIds
    THEN Returned(build_flat_tree(OrderById(get_descendants(inst))))
    ELSE Raised("NodeNotFound")

\* resolve_descendants_tree that collects its records in a list shared by
\* all calls: the records of the call before are still in it.
resolve_descendants_tree_shared_result(inst) ==
    Returned((IF previous # NotRun /\ HasReturned(previous.outcome)
              THEN previous.outcome.returned ELSE <<>>)
             \o build_flat_tree(OrderById(get_descendants(inst))))

resolve_descendants_tree(inst) ==
    Returned(build_flat_tree(OrderById(get_descendants(inst))))

RECURSIVE find_root(_)
\* find_root that stops at the first parent it loads.
find_root_one_step(root) ==
    IF IsNotNone(root.parent_id)
    THEN IF root.parent_id \in PopulationIds
         THEN Returned(Instance(root.parent_id))
         ELSE Raised("DoesNotExist")
    ELSE Returned(root)

\* root = self; while root.parent_id is not None: root = root.parent
\* (root.parent loads the row; a missing row raises DoesNotExist).
find_root(root) ==
    IF IsNotNone(root.parent_id)
    THEN IF root.parent_id \in PopulationIds
         THEN find_root(Instance(root.parent_id))
         ELSE Raised("DoesNotExist")
    ELSE Returned(root)

\* get_full_tree seeded with every parentless row.
get_full_tree_all_roots(root) == WithRecursive(FilterParentId(None))

\* get_full_tree(cte): the root's own row, then recursively the children.
get_full_tree(root) == WithRecursive(FilterId(root.id))

\* resolve_full_tree that starts the query at the instance's own row, without
\* the walk to the root.
resolve_full_tree_from_self(inst) ==
    Returned(build_flat_tree(OrderById(get_descendants_with_self(inst))))

resolve_full_tree(inst) ==
    LET root == find_root(inst)
    IN  IF HasRaised(root) THEN root
        ELSE Returned(build_flat_tree(OrderById(get_full_tree(root.returned))))

RECURSIVE find_ancestors(_)
RECURSIVE find_ancestors_without_root(_)
\* find_ancestors without the final append of the root ancestor.
find_ancestors_without_root(node) ==
    IF IsNotNone(node.parent_id)
    THEN IF node.parent_id \in PopulationIds
         THEN LET rest == find_ancestors_without_root(Instance(node.parent_id))
              IN  IF HasRaised(rest) THEN rest
                  ELSE Returned(<<node>> \o rest.returned)
         ELSE Raised("DoesNotExist")
    ELSE Returned(<<>>)

\* ancestors = []; node = self
\* while node.parent_id is not None: ancestors.append(node); node = node.parent
\* ancestors.append(node)
find_ancestors(node) ==
    IF IsNotNone(node.parent_id)
    THEN IF node.parent_id \in PopulationIds
         THEN LET rest == find_ancestors(Instance(node.parent_id))
              IN  IF HasRaised(rest) THEN rest
                  ELSE Returned(<<node>> \o rest.returned)
         ELSE Raised("DoesNotExist")
    ELSE Returned(<<node>>)

\* combined_qs whose descendant half starts at the instance's own row.
combined_qs_self_twice(ancestors, inst) ==
    LET ancestor_ids == {ancestors[i].id : i \in 1..Len(ancestors)}
    IN  FilterIdIn(ancestor_ids) \o get_descendants_with_self(inst)

\* combined_qs whose descendant half is taken below the root ancestor
\* instead of below the instance.
combined_qs_below_root(ancestors, inst) ==
    LET ancestor_ids == {ancestors[i].id : i \in 1..Len(ancestors)}
    IN  FilterIdIn(ancestor_ids) \o get_descendants(ancestors[Len(ancestors)])

\* combined_qs: the ancestors' rows UNION ALL the descendants' rows.
combined_qs(ancestors, inst) ==
    LET ancestor_ids == {ancestors[i].id : i \in 1..Len(ancestors)}
    IN  FilterIdIn(ancestor_ids) \o get_descendants(inst)

\* resolve_subtree: combined_qs has no ORDER BY, so every order of its rows
\* is a possible subtree_nodes; the set of the outcomes the call can have.
resolve_subtree(inst) ==
    LET ancestors == find_ancestors(inst)
    IN  IF HasRaised(ancestors) THEN {ancestors}
        ELSE {Returned(build_flat_tree(subtree_nodes)) :
                 subtree_nodes \in Orderings(combined_qs(ancestors.returned, inst))}

(***************************************************************************)
(* Specification of the tree resolvers: annotations are created and        *)
(* deleted, an instance is loaded, and a resolver runs on it.              *)
(***************************************************************************)
ActionIdle ==
    /\ corpus_actions = {}
    /\ corpus_action = NoInstance
    /\ saved = NotRun

RestIdle ==
    /\ ActionIdle
    /\ frame = NotRun
    /\ annotation_set = {}
    /\ request = NotRun
    /\ response = NotRun
    /\ visible = {}
    /\ previous = NotRun

TreeInit ==
    /\ RestIdle
    /\ population = {}
    /\ self = NoInstance
    /\ reply = NotRun
    /\ nodes = <<>>
    /\ node_list = NotRun
    /\ type_ = AnnotationTypeName
    /\ id_ = PyInt(0)
    /\ global_id = NotRun
    /\ resolved = NotRun

\* Annotation.objects.create(id=i, parent_id=p, ...): the parent exists, and
\* the id of a deleted row whose instance is still in memory is not given out
\* again.  A reply is kept only while the population it was computed from
\* stands.
CreateAnnotation(i, p) ==
    /\ i \notin PopulationIds
    /\ IF self = NoInstance THEN TRUE ELSE self.id # i
    /\ p = None \/ p \in PopulationIds
    /\ population' = population \cup {[id |-> i, parent_id |-> p, raw_text |-> RawTextOf(i)]}
    /\ reply' = NotRun
    /\ UNCHANGED <<self, flatVars, codecVars, restVars>>

\* annotation.delete() of an annotation without children; an instance of it
\* loaded earlier stays in memory.
DeleteAnnotation(i) ==
    /\ i \in PopulationIds
    /\ \A r \in population : r.parent_id # i
    /\ population' = population \ {Row(i)}
    /\ reply' = NotRun
    /\ UNCHANGED <<self, flatVars, codecVars, restVars>>

\* The query that hands an Annotation instance to the field resolvers.
LoadInstance(i) ==
    /\ i \in PopulationIds
    /\ self' = Instance(i)
    /\ reply' = NotRun
    /\ UNCHANGED <<population, flatVars, codecVars, restVars>>

ResolveDescendantsTree ==
    /\ self # NoInstance
    /\ reply = NotRun
    /\ reply' = [field |-> "descendants_tree", outcome |-> resolve_descendants_tree(self)]
    /\ UNCHANGED <<population, self, flatVars, codecVars, restVars>>

ResolveFullTree ==
    /\ self # NoInstance
    /\ reply = NotRun
    /\ reply' = [field |-> "full_tree", outcome |-> resolve_full_tree(self)]
    /\ UNCHANGED <<population, self, flatVars, codecVars, restVars>>

ResolveSubtree ==
    /\ self # NoInstance
    /\ reply = NotRun
    /\ \E outcome \in resolve_subtree(self) :
           reply' = [field |-> "subtree", outcome |-> outcome]
    /\ UNCHANGED <<population, self, flatVars, codecVars, restVars>>

\* The reply of the resolver is handed to the serialization layer.
SendReply ==
    /\ reply # NotRun
    /\ reply' = NotRun
    /\ UNCHANGED <<population, self, flatVars, codecVars, restVars>>

Next ==
    \/ \E i \in Ids, p \in Ids \cup {None} : CreateAnnotation(i, p)
    \/ \E i \in Ids : DeleteAnnotation(i)
    \/ \E i \in Ids : LoadInstance(i)
    \/ ResolveDescendantsTree
    \/ ResolveFullTree
    \/ ResolveSubtree
    \/ SendReply

Spec == TreeInit /\ [][Next]_vars

(***************************************************************************)
(* Specification of the codec: to_global_id and from_global_id applied to  *)
(* every (type name, id) of the bounded domain.                            *)
(***************************************************************************)
TreeIdle == population = {} /\ self = NoInstance /\ reply = NotRun
FlatIdle == nodes = <<>> /\ node_list = NotRun

CodecInit ==
    /\ type_ \in TypeNames
    /\ id_ \in {PyInt(n) : n \in 0..MaxCodecId}
    /\ global_id = NotRun
    /\ resolved = NotRun
    /\ TreeIdle
    /\ FlatIdle
    /\ RestIdle

Encode ==
    /\ global_id = NotRun
    /\ global_id' = Returned(to_global_id(type_, id_))
    /\ UNCHANGED <<type_, id_, resolved, treeVars, flatVars, restVars>>

Decode ==
    /\ global_id # NotRun
    /\ resolved = NotRun
    /\ resolved' = Returned(from_global_id(global_id.returned))
    /\ UNCHANGED <<type_, id_, global_id, treeVars, flatVars, restVars>>

CodecNext == Encode \/ Decode

SpecCodec == CodecInit /\ [][CodecNext]_vars

(***************************************************************************)
(* Specification of the flattener: build_flat_tree applied to every list   *)
(* of at most MaxLen rows.                                                 *)
(***************************************************************************)
FlatRows ==
    [id : 0..MaxFlatId, parent_id : {None} \cup 0..MaxFlatId, raw_text : Texts]

CodecIdle ==
    /\ type_ = AnnotationTypeName
    /\ id_ = PyInt(0)
    /\ global_id = NotRun
    /\ resolved = NotRun

FlatInit ==
    /\ \E n \in 0..MaxLen : nodes \in [1..n -> FlatRows]
    /\ node_list = NotRun
    /\ TreeIdle
    /\ CodecIdle
    /\ RestIdle

BuildFlatTree ==
    /\ node_list = NotRun
    /\ node_list' = Returned(build_flat_tree(nodes))
    /\ UNCHANGED <<nodes, treeVars, codecVars, restVars>>

FlatNext == BuildFlatTree

SpecFlat == FlatInit /\ [][FlatNext]_vars

(***************************************************************************)
(* The tree resolvers statement by statement: one step per iteration of    *)
(* the upward while loop (one lazy load of a parent row each) and one step *)
(* per iteration of the recursive query.  The population does not change   *)
(* during the call and may hold any parent relation the foreign key        *)
(* admits, cycles included.                                                *)
(***************************************************************************)
WalkIds == 0..MaxWalkId

\* Model caps on the iterations of a loop that does not end by itself; both
\* lie above what a call on an acyclic population of WalkIds needs.
StepCap == MaxWalkId + 3
RowCap == MaxWalkId + 3

\* The populations over WalkIds in which every parent_id is null or the id
\* of a row.
WalkInit ==
    /\ \E S \in SUBSET WalkIds : \E f \in [S -> S \cup {None}] :
           population = {[id |-> i, parent_id |-> f[i], raw_text |-> RawTextOf(i)] : i \in S}
    /\ \E i \in PopulationIds : self = Instance(i)
    /\ reply = NotRun
    /\ frame = NotRun
    /\ FlatIdle
    /\ CodecIdle
    /\ annotation_set = {}
    /\ request = NotRun
    /\ response = NotRun
    /\ visible = {}
    /\ ActionIdle
    /\ previous = NotRun

\* A lazy load that hands back the node it was asked the parent of.
LoadParentStay(node) == Returned(node)

\* node.parent: the lazy load of the parent row by primary key.
LoadParent(node) ==
    IF node.parent_id \in PopulationIds
    THEN Returned(Instance(node.parent_id))
    ELSE Raised("DoesNotExist")

\* The resolver is entered: root = self (full_tree), ancestors = [] and
\* node = self (subtree); descendants_tree goes straight to its query.
CallResolver(field) ==
    /\ frame = NotRun
    /\ self # NoInstance
    /\ frame' = [field |-> field,
                 pc |-> IF field = "descendants_tree" THEN "query" ELSE "walk",
                 node |-> self,
                 ancestors |-> <<>>,
                 loads |-> 0,
                 working |-> <<>>,
                 rows |-> <<>>]
    /\ UNCHANGED <<treeVars, flatVars, codecVars, apiVars, visible, previous, actionVars>>

\* One iteration of `while node.parent_id is not None`: subtree appends the
\* node to ancestors, then the parent is loaded.
WalkStep ==
    /\ frame # NotRun
    /\ frame.pc = "walk"
    /\ IsNotNone(frame.node.parent_id)
    /\ frame.loads < StepCap
    /\ LET parent == LoadParent(frame.node)
       IN  IF HasRaised(parent)
           THEN /\ frame' = [frame EXCEPT !.pc = "raised"]
                /\ reply' = [field |-> frame.field, outcome |-> parent]
           ELSE /\ frame' = [frame EXCEPT
                                !.node = parent.returned,
                                !.loads = @ + 1,
                                !.ancestors = IF frame.field = "subtree"
                                              THEN Append(@, frame.node) ELSE @]
                /\ reply' = reply
    /\ UNCHANGED <<population, self, flatVars, codecVars, apiVars, visible, previous, actionVars>>

\* The while loop ends at a node whose parent_id is None; subtree appends
\* this root ancestor.
WalkEnd ==
    /\ frame # NotRun
    /\ frame.pc = "walk"
    /\ ~IsNotNone(frame.node.parent_id)
    /\ frame' = [frame EXCEPT
                    !.pc = "query",
                    !.ancestors = IF frame.field = "subtree"
                                  THEN Append(@, frame.node) ELSE @]
    /\ UNCHANGED <<treeVars, flatVars, codecVars, apiVars, visible, previous, actionVars>>

\* The non-recursive member of the query seeds the working table: the
\* root's own row for full_tree, the children of self for the other two.
QueryBase ==
    /\ frame # NotRun
    /\ frame.pc = "query"
    /\ LET base_qs == IF frame.field = "full_tree"
                      THEN FilterId(frame.node.id)
                      ELSE FilterParentId(self.id)
       IN  frame' = [frame EXCEPT !.pc = "cte", !.working = base_qs, !.rows = base_qs]
    /\ UNCHANGED <<treeVars, flatVars, codecVars, apiVars, visible, previous, actionVars>>

\* One iteration of the recursive member on a working table that is not
\* empty.
QueryRecurse ==
    /\ frame # NotRun
    /\ frame.pc = "cte"
    /\ frame.working # <<>>
    /\ Len(frame.rows) < RowCap
    /\ LET step == JoinChildren(frame.working)
       IN  frame' = [frame EXCEPT !.working = step, !.rows = @ \o step]
    /\ UNCHANGED <<treeVars, flatVars, codecVars, apiVars, visible, previous, actionVars>>

\* The working table is empty: the statement's result is the rows found,
\* ordered by id for descendants_tree and full_tree, and united with the
\* ancestors' rows for subtree.
QueryFinish ==
    /\ frame # NotRun
    /\ frame.pc = "cte"
    /\ frame.working = <<>>
    /\ LET ancestor_ids == {frame.ancestors[i].id : i \in 1..Len(frame.ancestors)}
       IN  frame' = [frame EXCEPT
                        !.pc = "fetch",
                        !.rows = IF frame.field = "subtree"
                                 THEN FilterIdIn(ancestor_ids) \o @
                                 ELSE OrderById(@)]
    /\ UNCHANGED <<treeVars, flatVars, codecVars, apiVars, visible, previous, actionVars>>

\* list(...) receives the rows of the statement: as ordered for
\* descendants_tree and full_tree, in whatever order the statement without
\* ORDER BY yields them for subtree.
QueryReturn ==
    /\ frame # NotRun
    /\ frame.pc = "fetch"
    /\ IF frame.field = "subtree"
       THEN \E p \in Permutations(1..Len(frame.rows)) :
                frame' = [frame EXCEPT
                             !.pc = "flatten",
                             !.rows = [i \in 1..Len(frame.rows) |-> frame.rows[p[i]]]]
       ELSE frame' = [frame EXCEPT !.pc = "flatten"]
    /\ UNCHANGED <<treeVars, flatVars, codecVars, apiVars, visible, previous, actionVars>>

\* return build_flat_tree(nodes)
ReturnFlatTree ==
    /\ frame # NotRun
    /\ frame.pc = "flatten"
    /\ frame' = [frame EXCEPT !.pc = "done"]
    /\ reply' = [field |-> frame.field, outcome |-> Returned(build_flat_tree(frame.rows))]
    /\ UNCHANGED <<population, self, flatVars, codecVars, apiVars, visible, previous, actionVars>>

WalkNext ==
    \/ \E field \in {"descendants_tree", "full_tree", "subtree"} : CallResolver(field)
    \/ WalkStep
    \/ WalkEnd
    \/ QueryBase
    \/ QueryRecurse
    \/ QueryFinish
    \/ QueryReturn
    \/ ReturnFlatTree

SpecWalk == WalkInit /\ [][WalkNext]_vars

\* The resolver runs in one thread of the request: a statement that can run
\* does run.
SpecWalkFair == SpecWalk /\ WF_vars(WalkNext)

(***************************************************************************)
(* The parent relation of the population, stated without the queries.      *)
(***************************************************************************)
RECURSIVE ChainReaches(_, _)
\* The chain of parent_id links of m reaches n in one step or more.
ChainReaches(m, n) ==
    /\ m \in PopulationIds
    /\ LET p == Row(m).parent_id
       IN  p # None /\ (p = n \/ ChainReaches(p, n))

DescendantIds(n) == {m \in PopulationIds : m # n /\ ChainReaches(m, n)}

AncestorPathIds(n) == {n} \cup {a \in PopulationIds : ChainReaches(n, a)}

TrueRoot(n) == CHOOSE r \in AncestorPathIds(n) : Row(r).parent_id = None

GlobalIdsOf(S) == {AnnotationGlobalId(i) : i \in S}

ReplyIs(field) == reply # NotRun /\ reply.field = field

ReplyList == reply.outcome.returned

ReplyIdSet == {ReplyList[i].id : i \in 1..Len(ReplyList)}

(***************************************************************************)
(* Claims on the tree resolvers, checked under Spec.                       *)
(***************************************************************************)

\* C1: for an existing node N (its instance equal to its row), the records
\* of resolve_descendants_tree(N) are exactly the nodes other than N whose
\* chain of parent_id links reaches N: none missing, none extra, each once.
C1_DescendantsAreTransitiveChildren ==
    (ReplyIs("descendants_tree") /\ Fresh(self)) =>
        /\ HasReturned(reply.outcome)
        /\ ReplyIdSet = GlobalIdsOf(DescendantIds(self.id))
        /\ Len(ReplyList) = Cardinality(DescendantIds(self.id))

\* A descendants reply that holds a grandchild of N while the population
\* also holds nodes that are no descendants of N.
C1_Witness ==
    /\ ReplyIs("descendants_tree")
    /\ Fresh(self)
    /\ \E m \in DescendantIds(self.id) : Row(m).parent_id # self.id
    /\ PopulationIds \ (DescendantIds(self.id) \cup {self.id}) # {}
    /\ Len(ReplyList) >= 2

\* C2: the id of N itself is never the id of a record of
\* resolve_descendants_tree(N), whether or not N's instance is still current.
C2_DescendantsExcludeSelf ==
    (ReplyIs("descendants_tree") /\ HasReturned(reply.outcome)) =>
        AnnotationGlobalId(self.id) \notin ReplyIdSet

\* A non-empty descendants reply for a node that itself has a parent.
C2_Witness ==
    /\ ReplyIs("descendants_tree")
    /\ Fresh(self)
    /\ self.parent_id # None
    /\ Len(ReplyList) >= 1

\* C3: resolve_full_tree(N) returns exactly the true root R of N (reached by
\* following parent_id up to a null parent_id) and every node whose parent
\* chain reaches R; R is always among the records.
C3_FullTreeIsTreeOfTrueRoot ==
    (ReplyIs("full_tree") /\ Fresh(self)) =>
        LET R == TrueRoot(self.id)
            tree == {R} \cup DescendantIds(R)
        IN  /\ HasReturned(reply.outcome)
            /\ AnnotationGlobalId(R) \in ReplyIdSet
            /\ ReplyIdSet = GlobalIdsOf(tree)
            /\ Len(ReplyList) = Cardinality(tree)

\* A full_tree reply for a node two levels below its true root, with a
\* second tree in the population.
C3_Witness ==
    /\ ReplyIs("full_tree")
    /\ Fresh(self)
    /\ self.parent_id # None
    /\ Row(self.parent_id).parent_id = TrueRoot(self.id)
    /\ \E r \in population : r.parent_id = None /\ r.id # TrueRoot(self.id)

\* The full_tree reply for a parentless node: the node is its own true root.
C3_WitnessParentless ==
    /\ ReplyIs("full_tree")
    /\ Fresh(self)
    /\ self.parent_id = None
    /\ Len(ReplyList) >= 2

\* C4: the records of resolve_subtree(N) are exactly the ancestor path of N
\* (N and every node up to the true root) and the descendants of N; no
\* sibling of N or of one of its ancestors is among them.
C4_SubtreeIsPathPlusDescendants ==
    (ReplyIs("subtree") /\ Fresh(self)) =>
        LET path == AncestorPathIds(self.id)
            ids == ReplyIdSet
        IN  /\ HasReturned(reply.outcome)
            /\ ids = GlobalIdsOf(path \cup DescendantIds(self.id))
            /\ \A a \in path : \A s \in PopulationIds \ path :
                   Row(s).parent_id = Row(a).parent_id => AnnotationGlobalId(s) \notin ids

\* A subtree reply for a node that has a parent, a sibling and a child.
C4_Witness ==
    /\ ReplyIs("subtree")
    /\ Fresh(self)
    /\ self.parent_id # None
    /\ \E s \in PopulationIds : s # self.id /\ Row(s).parent_id = self.parent_id
    /\ DescendantIds(self.id) # {}

\* C5: no two records of resolve_subtree(N) carry the same id: the UNION ALL
\* of the ancestor rows and the descendant rows holds each node once.
C5_SubtreeHasNoDuplicate ==
    (ReplyIs("subtree") /\ Fresh(self) /\ HasReturned(reply.outcome)) =>
        \A i, j \in 1..Len(ReplyList) : ReplyList[i].id = ReplyList[j].id => i = j

\* A subtree reply whose two halves are both non-empty beside N itself.
C5_Witness ==
    /\ ReplyIs("subtree")
    /\ Fresh(self)
    /\ self.parent_id # None
    /\ DescendantIds(self.id) # {}
    /\ Len(ReplyList) >= 3

C9_ChildlessNode ==
    (reply # NotRun /\ Fresh(self) /\ \A r \in population : r.parent_id # self.id) =>
        /\ reply.field = "descendants_tree" => reply.outcome = Returned(<<>>)
        /\ (reply.field = "full_tree" /\ self.parent_id = None) =>
               reply.outcome = Returned(<<[id |-> AnnotationGlobalId(self.id),
                                           raw_text |-> Row(self.id).raw_text,
                                           children |-> <<>>]>>)
        /\ reply.field = "subtree" =>
               LET path == AncestorPathIds(self.id)
               IN  /\ HasReturned(reply.outcome)
                   /\ ReplyIdSet = GlobalIdsOf(path)
                   /\ Len(ReplyList) = Cardinality(path)

\* The full_tree reply for a childless, parentless node beside another tree.
C9_Witness ==
    /\ ReplyIs("full_tree")
    /\ Fresh(self)
    /\ self.parent_id = None
    /\ \A r \in population : r.parent_id # self.id
    /\ Cardinality(population) >= 3

(***************************************************************************)
(* Claims on build_flat_tree, checked under SpecFlat.                      *)
(***************************************************************************)
NodeList == node_list.returned

\* The ids, in input order, of the input nodes whose parent_id is x.
InputChildrenOf(x) ==
    LET rows == SelectSeq(nodes, LAMBDA n : n.parent_id = x)
    IN  [j \in 1..Len(rows) |-> rows[j].id]

\* C6: the children list of the record of node X is exactly the sequence of
\* the encoded ids of the input nodes whose parent_id equals X's id, in
\* input order, for every id value.
C6_ChildrenAreInputNodesOfParent ==
    HasReturned(node_list) =>
        \A i \in 1..Len(nodes) :
            NodeList[i].children =
                [j \in 1..Len(InputChildrenOf(nodes[i].id)) |->
                    AnnotationGlobalId(InputChildrenOf(nodes[i].id)[j])]

\* C10: build_flat_tree emits one record per input element, in input order,
\* with the encoding of the element's id, its raw_text unchanged and a
\* children list that is empty when no input element names it as parent.
C10_OneRecordPerInputElement ==
    HasReturned(node_list) =>
        /\ Len(NodeList) = Len(nodes)
        /\ \A i \in 1..Len(nodes) :
              /\ DOMAIN NodeList[i] = {"id", "raw_text", "children"}
              /\ NodeList[i].id = AnnotationGlobalId(nodes[i].id)
              /\ NodeList[i].raw_text = nodes[i].raw_text
              /\ NodeList[i].children \in Seq(GlobalIdsOf(0..MaxFlatId))
              /\ (\A j \in 1..Len(nodes) : nodes[j].parent_id # nodes[i].id)
                     => NodeList[i].children = <<>>

\* A flattened list of three elements with differing texts and a repeated
\* id, one record with a child and one without.
C10_Witness ==
    /\ HasReturned(node_list)
    /\ Len(nodes) = 3
    /\ nodes[1].raw_text # nodes[2].raw_text
    /\ \E i, j \in 1..3 : i # j /\ nodes[i].id = nodes[j].id
    /\ \E i \in 1..3 : NodeList[i].children # <<>>
    /\ \E i \in 1..3 : NodeList[i].children = <<>>

(***************************************************************************)
(* Claims on the global-id codec, checked under SpecCodec.                 *)
(***************************************************************************)

\* C8 as stated: decoding the external id of (type, id) returns the type and
\* the very internal id that was encoded.
C8_DecodeReturnsEncodedId ==
    HasReturned(resolved) =>
        /\ resolved.returned.type = type_
        /\ PyEq(resolved.returned.id, id_)

\* C8 amended: decoding the external id of (type, id) returns the type and
\* the decimal string str(id) of the internal id, a str and not the int that
\* was encoded; int() of it is the encoded id.
C8_DecodeReturnsTypeAndIdString ==
    HasReturned(resolved) =>
        /\ resolved.returned.type = type_
        /\ resolved.returned.id = PyStr(str(id_.v))
        /\ \A i \in 1..Len(resolved.returned.id.v) : IsDigit(resolved.returned.id.v[i])
        /\ int(resolved.returned.id.v) = id_.v

\* A decoded external id of an id of two digits.
C8_Witness ==
    /\ HasReturned(resolved)
    /\ id_.v >= 10
    /\ type_ = AnnotationTypeName

(***************************************************************************)
(* Claims on the external ids the tree resolvers emit, checked under Spec. *)
(***************************************************************************)
\* The type tag the specification names for node ids.
AnnotationTag == <<"A", "n", "n", "o", "t", "a", "t", "i", "o", "n">>

\* from_global_id of every external id of a model id under either tag,
\* computed once.
DecodedGlobalIds ==
    [g \in {to_global_id(t, PyInt(i)) : t \in {AnnotationTag, AnnotationTypeName}, i \in Ids}
        |-> from_global_id(g)]

\* g is the external id of an existing annotation whose text is text, under
\* the type tag: it decodes to the tag and to the decimal string of the id.
IsGlobalIdOfRow(g, tag, text) ==
    /\ g \in DOMAIN DecodedGlobalIds
    /\ DecodedGlobalIds[g].type = tag
    /\ \E r \in population :
           /\ DecodedGlobalIds[g].id = PyStr(str(r.id))
           /\ r.raw_text = text

\* g is the external id, under the type tag, of a row whose parent is the
\* row that parent_g is the external id of.
IsGlobalIdOfChild(g, tag, parent_g) ==
    /\ g \in DOMAIN DecodedGlobalIds
    /\ parent_g \in DOMAIN DecodedGlobalIds
    /\ DecodedGlobalIds[g].type = tag
    /\ \E r \in population :
           /\ DecodedGlobalIds[g].id = PyStr(str(r.id))
           /\ r.parent_id # None
           /\ DecodedGlobalIds[parent_g].id = PyStr(str(r.parent_id))

\* Every id and every children id of the reply carries the tag.
ReplyIdsCarryTag(tag) ==
    \A i \in 1..Len(ReplyList) :
        /\ IsGlobalIdOfRow(ReplyList[i].id, tag, ReplyList[i].raw_text)
        /\ \A j \in 1..Len(ReplyList[i].children) :
               IsGlobalIdOfChild(ReplyList[i].children[j], tag, ReplyList[i].id)

\* C11 as stated: every id and every children id of a record returned by
\* resolve_descendants_tree, resolve_full_tree or resolve_subtree is the
\* encoding of the node's internal id under the type tag "Annotation".
C11_IdsEncodedWithTagAnnotation ==
    (reply # NotRun /\ HasReturned(reply.outcome)) => ReplyIdsCarryTag(AnnotationTag)

\* C11 amended: every id and every children id of a record returned by the
\* three tree resolvers is the encoding of the node's internal id under the
\* type tag "AnnotationType": it decodes to that tag and to str(id).
C11_IdsEncodedWithTagAnnotationType ==
    (reply # NotRun /\ HasReturned(reply.outcome)) => ReplyIdsCarryTag(AnnotationTypeName)

\* A reply of three records or more, one of which lists a child.
C11_Witness ==
    /\ reply # NotRun
    /\ HasReturned(reply.outcome)
    /\ Len(ReplyList) >= 3
    /\ \E i \in 1..Len(ReplyList) : ReplyList[i].children # <<>>

(***************************************************************************)
(* Claims on the order of the records, checked under Spec.                 *)
(***************************************************************************)
\* The internal id an external id decodes to.
InternalIdOf == [g \in DOMAIN DecodedGlobalIds |-> int(DecodedGlobalIds[g].id.v)]

\* The records of the reply stand in strictly ascending order of internal id.
ReplyAscendsById ==
    \A i \in 1..(Len(ReplyList) - 1) :
        InternalIdOf[ReplyList[i].id] < InternalIdOf[ReplyList[i + 1].id]

\* C12: the list resolve_descendants_tree returns and the list
\* resolve_full_tree returns are in strictly ascending order of internal id,
\* on every population and for every instance; resolve_subtree gives no such
\* guarantee (C12_SubtreeOutOfIdOrder is a reply it can give).
C12_DescendantsAndFullTreeAscendById ==
    ((ReplyIs("descendants_tree") \/ ReplyIs("full_tree")) /\ HasReturned(reply.outcome))
        => ReplyAscendsById

\* A full_tree reply of three records or more whose true root has not the
\* smallest id: the order in which the recursive query found the rows, root
\* first, is not the order of the reply.
C12_Witness ==
    /\ ReplyIs("full_tree")
    /\ Fresh(self)
    /\ Len(ReplyList) >= 3
    /\ ReplyList[1].id # AnnotationGlobalId(TrueRoot(self.id))

\* A subtree reply whose records are not in ascending order of internal id.
C12_SubtreeOutOfIdOrder ==
    /\ ReplyIs("subtree")
    /\ HasReturned(reply.outcome)
    /\ Len(ReplyList) >= 3
    /\ ~ReplyAscendsById

(***************************************************************************)
(* Claims on termination, checked under SpecWalk and SpecWalkFair.         *)
(***************************************************************************)
RECURSIVE ParentChain(_, _)
\* The ids met on the first k parent_id links from i.
ParentChain(i, k) ==
    IF k = 0 \/ i \notin PopulationIds THEN {}
    ELSE LET p == Row(i).parent_id
         IN  IF p = None THEN {} ELSE {p} \cup ParentChain(p, k - 1)

\* Every id the parent_id links lead to from i.
ProperAncestors(i) == ParentChain(i, Cardinality(population))

OnCycle(i) == i \in ProperAncestors(i)

\* The parent_id links from i run into a cycle: they never meet a null.
ChainHitsCycle(i) == OnCycle(i) \/ \E a \in ProperAncestors(i) : OnCycle(a)

AcyclicPopulation == \A i \in PopulationIds : ~OnCycle(i)

\* The number of parent_id links from i up to its root, on a chain with no
\* cycle.
DepthOf(i) == Cardinality(ProperAncestors(i))

FrameRowIds == {frame.rows[k].id : k \in 1..Len(frame.rows)}

\* What holds at every statement of a call.
WalkAndQueryBounded ==
    frame # NotRun =>
        /\ ~ChainHitsCycle(self.id) =>
               /\ frame.loads <= DepthOf(self.id)
               /\ (frame.field # "descendants_tree" /\ frame.pc \in {"query", "cte", "fetch", "flatten", "done"}) =>
                      /\ frame.node.parent_id = None
                      /\ frame.node.id \in {self.id} \cup ProperAncestors(self.id)
                      /\ frame.loads = DepthOf(self.id)
               /\ frame.pc # "raised"
        /\ AcyclicPopulation =>
               /\ Len(frame.rows) = Cardinality(FrameRowIds)
               /\ Len(frame.rows) <= Cardinality(population)
               /\ frame.pc \in {"fetch", "flatten", "done"} => frame.working = <<>>
        /\ (ChainHitsCycle(self.id) /\ frame.field # "descendants_tree") =>
               /\ frame.pc = "walk"
               /\ IsNotNone(frame.node.parent_id)

\* C13: on an acyclic population every call of the three resolvers comes to
\* its return; the recursive query holds each row at most once when its
\* working table runs empty, and the upward walk of full_tree and subtree
\* ends at a node with null parent_id after exactly depth-of-N loads.  When
\* the parent_id links from N run into a cycle the loop condition of the
\* upward walk is true at every step: the walk never ends.
C13_TraversalsTerminateUnlessCyclic ==
    /\ []WalkAndQueryBounded
    /\ AcyclicPopulation => <>(frame # NotRun /\ frame.pc = "done")

\* A full_tree call that has returned after two parent loads and a query
\* that collected three rows.
C13_Witness ==
    /\ frame # NotRun
    /\ frame.field = "full_tree"
    /\ frame.pc = "done"
    /\ frame.loads = 2
    /\ Len(frame.rows) = 3

\* An upward walk on a cycle of two nodes, still looping after more loads
\* than the population has rows.
C13_WalkOnCycle ==
    /\ frame # NotRun
    /\ frame.field = "subtree"
    /\ frame.pc = "walk"
    /\ OnCycle(self.id)
    /\ frame.loads > Cardinality(population)

(***************************************************************************)
(* The tree resolvers statement by statement while other requests commit   *)
(* re-parentings.  The resolvers open no transaction: every lazy load and  *)
(* the final query is a statement of its own and reads what is committed   *)
(* when it runs; one statement reads one state of the table.               *)
(***************************************************************************)
ConcurrentInit == WalkInit /\ AcyclicPopulation

\* Another request commits annotation i with a new parent p, before the
\* call or between two of its statements, the last of which is the query;
\* the parent relation stays acyclic.  An instance in memory keeps what it
\* has loaded.
Reparent(i, p) ==
    /\ IF frame = NotRun THEN TRUE ELSE frame.pc \in {"walk", "query"}
    /\ i \in PopulationIds
    /\ p = None \/ p \in PopulationIds
    /\ p # Row(i).parent_id
    /\ p # i
    /\ p # None => i \notin ProperAncestors(p)
    /\ population' = (population \ {Row(i)}) \cup {[Row(i) EXCEPT !.parent_id = p]}
    /\ UNCHANGED <<self, reply, flatVars, codecVars, restVars>>

ConcurrentNext ==
    \/ WalkNext
    \/ \E i \in WalkIds, p \in WalkIds \cup {None} : Reparent(i, p)

SpecConcurrent == ConcurrentInit /\ [][ConcurrentNext]_vars

(***************************************************************************)
(* Claim on concurrent re-parenting, checked under SpecConcurrent.         *)
(***************************************************************************)
\* C14: with re-parentings committed while a traversal call runs, the rows
\* the call fetches hold no node twice; in particular no node of a subtree
\* call is both among the ancestors the upward walk collected and among the
\* descendants the later query found.
C14_NoNodeTwiceUnderReparenting ==
    (frame # NotRun /\ frame.pc \in {"flatten", "done"}) =>
        Len(frame.rows) = Cardinality(FrameRowIds)

(***************************************************************************)
(* The tree resolvers on a storage that fails: the fails_at-th statement   *)
(* the call sends to the database raises OperationalError.                 *)
(***************************************************************************)
RECURSIVE ParentLoads(_)
\* The lazy loads the upward walk from node attempts.
ParentLoads(node) ==
    IF IsNotNone(node.parent_id)
    THEN IF node.parent_id \in PopulationIds
         THEN 1 + ParentLoads(Instance(node.parent_id))
         ELSE 1
    ELSE 0

\* The statements a call sends: the lazy loads of the walk and, when the
\* walk has found its root, the one query.
StatementsOf(field, inst) ==
    IF field = "descendants_tree" THEN 1
    ELSE ParentLoads(inst) + (IF HasRaised(find_root(inst)) THEN 0 ELSE 1)

\* The outcomes of a call on a storage that does not fail.
OutcomesOf(field, inst) ==
    IF field = "descendants_tree" THEN {resolve_descendants_tree(inst)}
    ELSE IF field = "full_tree" THEN {resolve_full_tree(inst)}
    ELSE resolve_subtree(inst)

\* A resolver that answers an exception with the empty list, as the except
\* clause of resolve_all_annotations does.
tree_resolver_except_empty_list(exc) == Returned(<<>>)

\* An exception raised inside a tree resolver or inside build_flat_tree:
\* none of them has a try statement, the exception leaves the resolver.
tree_resolver_except(exc) == Raised(exc)

resolve_on_failing_storage(field, inst, fails_at) ==
    IF fails_at <= StatementsOf(field, inst)
    THEN {tree_resolver_except("OperationalError")}
    ELSE OutcomesOf(field, inst)

\* The position of the failing statement; positions past the last statement
\* of a call are a storage that does not fail during the call.
FailsAt == 1..(MaxWalkId + 3)

ResolveOnFailingStorage(field, fails_at) ==
    /\ self # NoInstance
    /\ reply = NotRun
    /\ \E outcome \in resolve_on_failing_storage(field, self, fails_at) :
           reply' = [field |-> field, outcome |-> outcome, fails_at |-> fails_at]
    /\ UNCHANGED <<population, self, flatVars, codecVars, restVars>>

StorageNext ==
    \/ \E i \in WalkIds, p \in WalkIds \cup {None} : CreateAnnotation(i, p)
    \/ \E i \in WalkIds : DeleteAnnotation(i)
    \/ \E i \in WalkIds : LoadInstance(i)
    \/ \E field \in {"descendants_tree", "full_tree", "subtree"}, fails_at \in FailsAt :
           ResolveOnFailingStorage(field, fails_at)
    \/ SendReply

SpecStorage == TreeInit /\ [][StorageNext]_vars

(***************************************************************************)
(* Claim on failures, checked under SpecStorage.                           *)
(***************************************************************************)
\* The walk from the instance in memory asks for a row that is gone.
WalkMeetsMissingRow ==
    /\ self.parent_id # None
    /\ self.parent_id \notin PopulationIds

\* C15: a tree resolver never turns a failure into a result.  When the
\* storage fails at one of the statements of the call (for a current
\* instance N: one of the depth-of-N parent loads or the query; the query
\* alone for descendants_tree), the call raises that very OperationalError;
\* when a parent load of full_tree or subtree finds no row, the call raises
\* DoesNotExist; a call that returns a list has met no failure.
C15_FailuresPropagate ==
    (reply # NotRun /\ "fails_at" \in DOMAIN reply) =>
        LET walks == reply.field # "descendants_tree"
            statements == IF walks THEN DepthOf(self.id) + 1 ELSE 1
        IN  /\ (Fresh(self) /\ reply.fails_at <= statements)
                   => reply.outcome = Raised("OperationalError")
            /\ reply.fails_at = 1 => reply.outcome = Raised("OperationalError")
            /\ (walks /\ WalkMeetsMissingRow /\ reply.fails_at > 1)
                   => reply.outcome = Raised("DoesNotExist")
            /\ HasReturned(reply.outcome) =>
                   /\ ~(walks /\ WalkMeetsMissingRow)
                   /\ Fresh(self) => reply.fails_at > statements

\* A full_tree call on a node two levels deep whose storage fails at the
\* query, after both parent loads.
C15_Witness ==
    /\ reply # NotRun
    /\ "fails_at" \in DOMAIN reply
    /\ reply.field = "full_tree"
    /\ Fresh(self)
    /\ DepthOf(self.id) = 2
    /\ reply.fails_at = 3
    /\ HasRaised(reply.outcome)

(***************************************************************************)
(* The resolvers that take external ids as filter arguments:               *)
(* DocumentType.resolve_all_annotations and resolve_all_relationships,     *)
(* CorpusType.resolve_all_annotation_summaries and                         *)
(* AnalysisType.resolve_full_annotation_list.                              *)
(***************************************************************************)
DocumentTypeName == <<"D", "o", "c", "u", "m", "e", "n", "t", "T", "y", "p", "e">>

PyNone == [py |-> "NoneType"]
PyBool(b) == [py |-> "bool", v |-> b]
PyList(l) == [py |-> "list", v |-> l]

\* The value "__none__" that asks for rows without an analysis.
NoneSentinel == <<"_", "_", "n", "o", "n", "e", "_", "_">>

B64Symbols == {B64Alphabet[i] : i \in 1..Len(B64Alphabet)} \cup {"="}

\* b64decode drops every character outside the alphabet before decoding.
DiscardNonAlphabet(s) == SelectSeq(s, LAMBDA c : c \in B64Symbols)

RECURSIVE b64decode(_)
\* The bytes of a base64 string whose length is a multiple of four.
b64decode(s) ==
    IF Len(s) = 0 THEN <<>>
    ELSE IF s[3] = "=" THEN
        LET n == B64Value(s[1]) * 262144 + B64Value(s[2]) * 4096
        IN  <<n \div 65536>>
    ELSE IF s[4] = "=" THEN
        LET n == B64Value(s[1]) * 262144 + B64Value(s[2]) * 4096 + B64Value(s[3]) * 64
        IN  <<n \div 65536, (n \div 256) % 256>>
    ELSE
        LET n == B64Value(s[1]) * 262144 + B64Value(s[2]) * 4096
                 + B64Value(s[3]) * 64 + B64Value(s[4])
        IN  <<n \div 65536, (n \div 256) % 256, n % 256>> \o b64decode(SubSeq(s, 5, Len(s)))

\* unbase64(s) on any str: b64decode(s).decode("utf-8").  A length that is
\* no multiple of four is an incorrect padding, a byte outside ASCII cannot
\* start a character.
unbase64_or_raise(s) ==
    LET t == DiscardNonAlphabet(s)
    IN  IF Len(t) % 4 # 0 THEN Raised("binascii.Error")
        ELSE LET bytes == b64decode(t)
             IN  IF \E i \in 1..Len(bytes) : bytes[i] \notin 32..126
                 THEN Raised("UnicodeDecodeError")
                 ELSE Returned([i \in 1..Len(bytes) |-> chr(bytes[i])])

\* from_global_id(global_id) on any str.
from_global_id_or_raise(g) ==
    LET u == unbase64_or_raise(g)
    IN  IF HasRaised(u) THEN u ELSE Returned(from_global_id(DiscardNonAlphabet(g)))

IsDecimal(s) == Len(s) > 0 /\ \A i \in 1..Len(s) : IsDigit(s[i])

\* queryset.filter(<column>=pk) on an integer column: the str handed over is
\* converted with int(), which raises ValueError on anything but digits.
filter_pk(queryset, column, pk) ==
    IF IsDecimal(pk.v)
    THEN Returned({r \in queryset : r[column] = int(pk.v)})
    ELSE Raised("ValueError")

\* pk = from_global_id(g)[1]; queryset.filter(<column>=pk): an exception of
\* the first statement skips the second.
filter_by_global_id(queryset, column, g) ==
    LET decoded == from_global_id_or_raise(g)
    IN  IF HasRaised(decoded) THEN decoded
        ELSE filter_pk(queryset, column, decoded.returned.id)

\* What a resolver hands back: a queryset, or the list literal [].
QuerySet(rows) == [queryset |-> rows]
EmptyList == [list |-> <<>>]

\* An except clause that raises the exception again.
except_reraise(outcome) == outcome

\* except Exception as e: logger.warning(...); return []
except_return_empty_list(outcome) ==
    IF HasRaised(outcome) THEN Returned(EmptyList) ELSE outcome

\* DocumentType.resolve_all_annotations; a statement that raises skips the
\* rest of the try block.
resolve_all_annotations(doc_annotations, corpus_id, analysis_id, is_structural) ==
    LET in_corpus == filter_by_global_id(doc_annotations, "corpus_id", corpus_id.v)
        in_analysis ==
            IF HasRaised(in_corpus) THEN in_corpus
            ELSE IF analysis_id # PyNone
                 THEN IF analysis_id = PyStr(NoneSentinel)
                      THEN Returned({r \in in_corpus.returned : r.analysis_id = None})
                      ELSE filter_by_global_id(in_corpus.returned, "analysis_id", analysis_id.v)
                 ELSE in_corpus
    IN  except_return_empty_list(
            IF HasRaised(in_analysis) THEN in_analysis
            ELSE Returned(QuerySet(IF is_structural # PyNone
                                   THEN {r \in in_analysis.returned : r.structural = is_structural.v}
                                   ELSE in_analysis.returned)))

\* DocumentType.resolve_all_relationships
resolve_all_relationships(relationships, corpus_id, analysis_id) ==
    LET in_corpus == filter_by_global_id(relationships, "corpus_id", corpus_id.v)
        in_analysis ==
            IF HasRaised(in_corpus) THEN in_corpus
            ELSE IF analysis_id = PyStr(NoneSentinel)
                 THEN Returned({r \in in_corpus.returned : r.analysis_id = None})
                 ELSE IF analysis_id # PyNone
                      THEN filter_by_global_id(in_corpus.returned, "analysis_id", analysis_id.v)
                      ELSE in_corpus
    IN  except_return_empty_list(
            IF HasRaised(in_analysis) THEN in_analysis
            ELSE Returned(QuerySet(in_analysis.returned)))

\* Python truth of an optional str or list argument.
TruthyArg(arg) == arg # PyNone /\ arg.v # <<>>

\* except Exception as e: logger.warning(...) -- annotation_set stays what
\* it was before the try block.
except_keep_annotation_set(outcome, annotation_set_before) ==
    IF HasRaised(outcome) THEN Returned(annotation_set_before) ELSE outcome

\* CorpusType.resolve_all_annotation_summaries
resolve_all_annotation_summaries(annotations, analysis_id, label_types) ==
    LET labelled == IF TruthyArg(label_types) /\ label_types.py = "list"
                    THEN {r \in annotations :
                             \E i \in 1..Len(label_types.v) : r.label_type = label_types.v[i]}
                    ELSE annotations
        filtered == IF TruthyArg(analysis_id)
                    THEN except_keep_annotation_set(
                             filter_by_global_id(labelled, "analysis_id", analysis_id.v),
                             labelled)
                    ELSE Returned(labelled)
    IN  IF HasRaised(filtered) THEN filtered
        ELSE Returned(QuerySet(filtered.returned))

\* AnalysisType.resolve_full_annotation_list: no try block, an exception
\* leaves the resolver.
resolve_full_annotation_list(annotations, document_id) ==
    LET results == IF document_id # PyNone
                   THEN filter_by_global_id(annotations, "document_id", document_id.v)
                   ELSE Returned(annotations)
    IN  IF HasRaised(results) THEN results
        ELSE Returned(QuerySet(results.returned))

(***************************************************************************)
(* Specification of the filtering resolvers: each is called with every     *)
(* combination of well-formed and malformed external ids on every set of   *)
(* rows of the table below.                                                *)
(***************************************************************************)
\* The row with primary key i of the related manager.
ApiRow(i) ==
    [id |-> i,
     corpus_id |-> IF i % 2 = 1 THEN 1 ELSE 2,
     analysis_id |-> IF i % 3 = 0 THEN None ELSE 1,
     document_id |-> IF i <= 1 THEN 1 ELSE 2,
     structural |-> (i % 2 = 0),
     label_type |-> IF i % 3 = 1 THEN "TOKEN_LABEL" ELSE "SPAN_LABEL"]

\* The external ids a client sends: of existing and of missing objects, the
\* sentinel, a string with an incorrect padding, the base64 of a text
\* without ":", and the empty string.
ExternalIds ==
    {to_global_id(CorpusTypeName, PyInt(1)),
     to_global_id(CorpusTypeName, PyInt(2)),
     to_global_id(AnalysisTypeName, PyInt(1)),
     to_global_id(DocumentTypeName, PyInt(2)),
     NoneSentinel,
     <<"a", "b", "c">>,
     base64(<<"a", "b", "c">>),
     <<>>}

IdArgs == {PyStr(g) : g \in ExternalIds}

ApiInit ==
    /\ annotation_set \in SUBSET {ApiRow(i) : i \in 1..MaxApiId}
    /\ request = NotRun
    /\ response = NotRun
    /\ frame = NotRun
    /\ visible = {}
    /\ ActionIdle
    /\ previous = NotRun
    /\ TreeIdle
    /\ FlatIdle
    /\ CodecIdle

ResolveAllAnnotations(corpus_id, analysis_id, is_structural) ==
    /\ response = NotRun
    /\ request' = [field |-> "all_annotations", corpus_id |-> corpus_id,
                   analysis_id |-> analysis_id, is_structural |-> is_structural,
                   label_types |-> PyNone, document_id |-> PyNone]
    /\ response' = resolve_all_annotations(annotation_set, corpus_id, analysis_id, is_structural)
    /\ UNCHANGED <<annotation_set, frame, visible, previous, treeVars, flatVars, codecVars, actionVars>>

ResolveAllRelationships(corpus_id, analysis_id) ==
    /\ response = NotRun
    /\ request' = [field |-> "all_relationships", corpus_id |-> corpus_id,
                   analysis_id |-> analysis_id, is_structural |-> PyNone,
                   label_types |-> PyNone, document_id |-> PyNone]
    /\ response' = resolve_all_relationships(annotation_set, corpus_id, analysis_id)
    /\ UNCHANGED <<annotation_set, frame, visible, previous, treeVars, flatVars, codecVars, actionVars>>

ResolveAllAnnotationSummaries(analysis_id, label_types) ==
    /\ response = NotRun
    /\ request' = [field |-> "all_annotation_summaries", corpus_id |-> PyNone,
                   analysis_id |-> analysis_id, is_structural |-> PyNone,
                   label_types |-> label_types, document_id |-> PyNone]
    /\ response' = resolve_all_annotation_summaries(annotation_set, analysis_id, label_types)
    /\ UNCHANGED <<annotation_set, frame, visible, previous, treeVars, flatVars, codecVars, actionVars>>

ResolveFullAnnotationList(document_id) ==
    /\ response = NotRun
    /\ request' = [field |-> "full_annotation_list", corpus_id |-> PyNone,
                   analysis_id |-> PyNone, is_structural |-> PyNone,
                   label_types |-> PyNone, document_id |-> document_id]
    /\ response' = resolve_full_annotation_list(annotation_set, document_id)
    /\ UNCHANGED <<annotation_set, frame, visible, previous, treeVars, flatVars, codecVars, actionVars>>

\* The outcome goes to the client.
SendResponse ==
    /\ response # NotRun
    /\ request' = NotRun
    /\ response' = NotRun
    /\ UNCHANGED <<annotation_set, frame, visible, previous, treeVars, flatVars, codecVars, actionVars>>

ApiNext ==
    \/ \E corpus_id \in IdArgs, analysis_id \in IdArgs \cup {PyNone},
          is_structural \in {PyNone, PyBool(TRUE), PyBool(FALSE)} :
           ResolveAllAnnotations(corpus_id, analysis_id, is_structural)
    \/ \E corpus_id \in IdArgs, analysis_id \in IdArgs \cup {PyNone} :
           ResolveAllRelationships(corpus_id, analysis_id)
    \/ \E analysis_id \in IdArgs \cup {PyNone},
          label_types \in {PyNone, PyList(<<"TOKEN_LABEL">>)} :
           ResolveAllAnnotationSummaries(analysis_id, label_types)
    \/ \E document_id \in IdArgs \cup {PyNone} : ResolveFullAnnotationList(document_id)
    \/ SendResponse

SpecApi == ApiInit /\ [][ApiNext]_vars

(***************************************************************************)
(* Claim on malformed external ids, checked under SpecApi.                 *)
(***************************************************************************)
\* The external ids that are the encoding of a type name and an integer id.
WellFormedExternalIds ==
    {to_global_id(t, PyInt(i)) :
        t \in {CorpusTypeName, AnalysisTypeName, DocumentTypeName, AnnotationTypeName},
        i \in 0..MaxApiId}

\* The argument is given and is no encoding of a type name and an id.
FailsToDecode(arg) == arg # PyNone /\ arg.v \notin WellFormedExternalIds

\* The call received an external id that fails to decode: the corpus_id or
\* the analysis_id of all_annotations and all_relationships (for which
\* "__none__" is a value of its own), the analysis_id of
\* all_annotation_summaries, the document_id of full_annotation_list.
RequestHasMalformedId ==
    /\ request # NotRun
    /\ \/ /\ request.field \in {"all_annotations", "all_relationships"}
          /\ \/ FailsToDecode(request.corpus_id)
             \/ FailsToDecode(request.analysis_id) /\ request.analysis_id # PyStr(NoneSentinel)
       \/ request.field = "all_annotation_summaries" /\ FailsToDecode(request.analysis_id)
       \/ request.field = "full_annotation_list" /\ FailsToDecode(request.document_id)

\* The rows all_annotation_summaries returns when no analysis_id is given.
SummariesWithoutAnalysisFilter ==
    IF request.label_types = PyNone THEN annotation_set
    ELSE {r \in annotation_set :
             \E i \in 1..Len(request.label_types.v) : r.label_type = request.label_types.v[i]}

\* C16 as stated: a call that received an external id that fails to decode
\* ends in an error the client sees, never in a returned value.
C16_MalformedIdIsClientError ==
    RequestHasMalformedId => HasRaised(response)

\* C16 amended: on an external id that fails to decode,
\* resolve_all_annotations and resolve_all_relationships return the empty
\* list, resolve_all_annotation_summaries returns the rows it would return
\* had no analysis_id been given, and resolve_full_annotation_list alone
\* raises.
C16_MalformedIdOutcomePerResolver ==
    RequestHasMalformedId =>
        /\ request.field \in {"all_annotations", "all_relationships"}
               => response = Returned(EmptyList)
        /\ request.field = "all_annotation_summaries"
               => response = Returned(QuerySet(SummariesWithoutAnalysisFilter))
        /\ request.field = "full_annotation_list" => HasRaised(response)

\* all_annotation_summaries called with an analysis_id of incorrect padding
\* on rows of which one has an analysis and one has none: both come back.
C16_Witness ==
    /\ request # NotRun
    /\ request.field = "all_annotation_summaries"
    /\ request.analysis_id = PyStr(<<"a", "b", "c">>)
    /\ HasReturned(response)
    /\ \E r1, r2 \in response.returned.queryset :
           r1.analysis_id = None /\ r2.analysis_id # None

\* all_annotations called with a corpus_id that fails to decode on a set of
\* rows that is not empty.
C16_WitnessEmptyList ==
    /\ request # NotRun
    /\ request.field = "all_annotations"
    /\ FailsToDecode(request.corpus_id)
    /\ annotation_set # {}
    /\ response = Returned(EmptyList)

(***************************************************************************)
(* Specification of repeated calls: on a population that stands, resolvers *)
(* are called one after the other on the same instance; the reply of the   *)
(* call before is remembered.                                              *)
(***************************************************************************)
TwiceInit ==
    /\ \E S \in SUBSET WalkIds : \E f \in [S -> S \cup {None}] :
           population = {[id |-> i, parent_id |-> f[i], raw_text |-> RawTextOf(i)] : i \in S}
    /\ AcyclicPopulation
    /\ self = NoInstance
    /\ reply = NotRun
    /\ previous = NotRun
    /\ frame = NotRun
    /\ annotation_set = {}
    /\ request = NotRun
    /\ response = NotRun
    /\ visible = {}
    /\ ActionIdle
    /\ FlatIdle
    /\ CodecIdle

\* The query that hands an Annotation instance to the field resolvers of a
\* new request.
LoadInstanceAnew(i) ==
    /\ i \in PopulationIds
    /\ self' = Instance(i)
    /\ reply' = NotRun
    /\ previous' = NotRun
    /\ UNCHANGED <<population, flatVars, codecVars, apiVars, frame, visible, actionVars>>

\* The reply is handed to the serialization layer, and kept for comparison.
SendReplyAndKeep ==
    /\ reply # NotRun
    /\ previous' = reply
    /\ reply' = NotRun
    /\ UNCHANGED <<population, self, flatVars, codecVars, apiVars, frame, visible, actionVars>>

TwiceNext ==
    \/ \E i \in WalkIds : LoadInstanceAnew(i)
    \/ ResolveDescendantsTree
    \/ ResolveFullTree
    \/ ResolveSubtree
    \/ SendReplyAndKeep

SpecTwice == TwiceInit /\ [][TwiceNext]_vars

(***************************************************************************)
(* Claim on effects and on repeated calls, checked under SpecTwice.        *)
(***************************************************************************)
RecordIdsOf(list) == {list[i].id : i \in 1..Len(list)}

\* The children list of the record of list with the given id.
ChildrenListOf(list, id) == (CHOOSE rec \in {list[i] : i \in 1..Len(list)} : rec.id = id).children

SeqToSet(seq) == {seq[i] : i \in 1..Len(seq)}

\* Two calls of the same field on the same instance, both returned.
CalledTwice ==
    /\ previous # NotRun
    /\ reply # NotRun
    /\ previous.field = reply.field
    /\ HasReturned(previous.outcome)
    /\ HasReturned(reply.outcome)

\* A resolver has run in this step.
ResolverStep == reply = NotRun /\ reply' # NotRun

\* C17 as stated: a resolver call leaves the population and the instance as
\* they are, and two calls with the same root on the same population return
\* the same node set with, for every node, the same children list.
C17_SameNodesSameChildrenLists ==
    /\ [](CalledTwice =>
            /\ RecordIdsOf(reply.outcome.returned) = RecordIdsOf(previous.outcome.returned)
            /\ \A id \in RecordIdsOf(reply.outcome.returned) :
                   ChildrenListOf(reply.outcome.returned, id)
                       = ChildrenListOf(previous.outcome.returned, id))
    /\ [][ResolverStep => (population' = population /\ self' = self)]_vars

\* C17 amended: a resolver call leaves the population and the instance as
\* they are, and two calls with the same root on the same population return
\* the same node set with, for every node, the same children; for
\* descendants_tree and full_tree the two lists are identical, for subtree
\* the order of the records and of the children within a record may differ.
C17_SameNodesSameChildren ==
    /\ [](CalledTwice =>
            /\ RecordIdsOf(reply.outcome.returned) = RecordIdsOf(previous.outcome.returned)
            /\ Len(reply.outcome.returned) = Len(previous.outcome.returned)
            /\ \A id \in RecordIdsOf(reply.outcome.returned) :
                   /\ SeqToSet(ChildrenListOf(reply.outcome.returned, id))
                          = SeqToSet(ChildrenListOf(previous.outcome.returned, id))
                   /\ Len(ChildrenListOf(reply.outcome.returned, id))
                          = Len(ChildrenListOf(previous.outcome.returned, id))
            /\ reply.field # "subtree" => reply.outcome = previous.outcome)
    /\ [][ResolverStep => (population' = population /\ self' = self)]_vars

\* Two subtree calls on a node with two children whose replies differ.
C17_Witness ==
    /\ CalledTwice
    /\ reply.field = "subtree"
    /\ Cardinality({r \in population : r.parent_id = self.id}) = 2
    /\ reply.outcome # previous.outcome

\* Two descendants_tree calls on a node with descendants.
C17_WitnessDescendants ==
    /\ CalledTwice
    /\ reply.field = "descendants_tree"
    /\ Len(reply.outcome.returned) >= 2

(***************************************************************************)
(* Specification of the tree resolvers for a requesting user who can see   *)
(* some of the annotations only.                                           *)
(***************************************************************************)
VisibleInit ==
    /\ \E S \in SUBSET WalkIds : \E f \in [S -> S \cup {None}] :
           population = {[id |-> i, parent_id |-> f[i], raw_text |-> RawTextOf(i)] : i \in S}
    /\ AcyclicPopulation
    /\ visible \in SUBSET PopulationIds
    /\ ActionIdle
    /\ self = NoInstance
    /\ reply = NotRun
    /\ previous = NotRun
    /\ frame = NotRun
    /\ annotation_set = {}
    /\ request = NotRun
    /\ response = NotRun
    /\ FlatIdle
    /\ CodecIdle

\* AnnotationType.get_queryset: the instance the fields are resolved on comes
\* from queryset.visible_to_user(info.context.user).
LoadVisibleInstance(i) ==
    /\ i \in visible
    /\ LoadInstance(i)

VisibleNext ==
    \/ \E i \in WalkIds : LoadVisibleInstance(i)
    \/ ResolveDescendantsTree
    \/ ResolveFullTree
    \/ ResolveSubtree
    \/ SendReply

SpecVisible == VisibleInit /\ [][VisibleNext]_vars

(***************************************************************************)
(* Claim on visibility, checked under SpecVisible.                         *)
(***************************************************************************)
\* C18: every record a tree resolver returns to a user who can see node N is
\* a node that user can see: its id is the external id of a member of
\* visible_to(user).
C18_RepliesHoldVisibleNodesOnly ==
    (reply # NotRun /\ HasReturned(reply.outcome)) =>
        ReplyIdSet \subseteq GlobalIdsOf(visible)


(***************************************************************************)
(* Claims relating the three resolvers to one another, checked under Spec. *)
(***************************************************************************)

\* C19: on an acyclic population, for any two nodes N and M with the same
\* true root, resolve_full_tree(N) and resolve_full_tree(M) return identical
\* lists: the same records in the same order with the same children lists.
C19_FullTreeSameForWholeTree ==
    (ReplyIs("full_tree") /\ Fresh(self)) =>
        \A M \in PopulationIds :
            TrueRoot(M) = TrueRoot(self.id) =>
                resolve_full_tree(Instance(M)) = reply.outcome

\* A full_tree reply for a node between its true root and a child of its
\* own, with a second tree in the population.
C19_Witness ==
    /\ ReplyIs("full_tree")
    /\ Fresh(self)
    /\ HasReturned(reply.outcome)
    /\ self.parent_id # None
    /\ \E M \in PopulationIds : Row(M).parent_id = self.id
    /\ \E M \in PopulationIds : TrueRoot(M) # TrueRoot(self.id)

\* The node sets of the three resolvers for the instance N = self: the ids
\* of the records each of them returns.
DescendantsNodeSet == RecordIdsOf(resolve_descendants_tree(self).returned)

FullTreeNodeSet == RecordIdsOf(resolve_full_tree(self).returned)

SubtreeNodeSet == ReplyIdSet

\* C20: on an acyclic population and for every node N, descendants(N) is a
\* subset of subtree(N), subtree(N) is a subset of full_tree(N), subtree(N)
\* minus descendants(N) is exactly the ancestor path of N (N, its parents,
\* up to and including the true root), and subtree(N) equals full_tree(N)
\* when N is the true root.
C20_NodeSetsNested ==
    (ReplyIs("subtree") /\ Fresh(self)) =>
        LET full == resolve_full_tree(self)
            descendants == DescendantsNodeSet
            subtree == SubtreeNodeSet
        IN  /\ HasReturned(reply.outcome)
            /\ HasReturned(full)
            /\ descendants \subseteq subtree
            /\ subtree \subseteq RecordIdsOf(full.returned)
            /\ subtree \ descendants = GlobalIdsOf(AncestorPathIds(self.id))
            /\ self.parent_id = None => subtree = RecordIdsOf(full.returned)

\* A subtree reply for a node that has a parent and a child, in a tree with
\* a node outside its subtree: the
\* three node sets differ from one another.
C20_Witness ==
    /\ ReplyIs("subtree")
    /\ Fresh(self)
    /\ HasReturned(reply.outcome)
    /\ DescendantsNodeSet # {}
    /\ DescendantsNodeSet # SubtreeNodeSet
    /\ SubtreeNodeSet # FullTreeNodeSet
    /\ self.parent_id # None

\* A subtree reply for a true root that has descendants.
C20_WitnessTrueRoot ==
    /\ ReplyIs("subtree")
    /\ Fresh(self)
    /\ HasReturned(reply.outcome)
    /\ self.parent_id = None
    /\ Cardinality(DescendantsNodeSet) >= 2

(***************************************************************************)
(* Claim on the children lists of the replies, checked under Spec.         *)
(***************************************************************************)
\* The places of a list of records at which id is listed as a child.
ChildPlaces(list, id) ==
    {<<i, j>> \in (1..Len(list)) \X (1..(MaxId + 1)) :
        j <= Len(list[i].children) /\ list[i].children[j] = id}

\* C21: the output of build_flat_tree is referentially closed: every id in a
\* children list is the id of a record of the same output; on an input
\* without duplicate ids each record's id is listed in at most one children
\* list, at most once, and never in its own.  In full_tree and subtree
\* replies every record except the true root is listed as a child of
\* exactly one record; in descendants_tree replies the direct children of
\* the queried node are listed as a child of no record.
C21_ChildrenListsClosedAndSingle ==
    (reply # NotRun /\ Fresh(self) /\ HasReturned(reply.outcome)) =>
        LET list == ReplyList
            ids == ReplyIdSet
            root == AnnotationGlobalId(TrueRoot(self.id))
        IN  /\ \A i \in 1..Len(list) :
                  /\ SeqToSet(list[i].children) \subseteq ids
                  /\ list[i].id \notin SeqToSet(list[i].children)
            /\ \A id \in ids : Cardinality(ChildPlaces(list, id)) <= 1
            /\ reply.field \in {"full_tree", "subtree"} =>
                  \A id \in ids \ {root} : Cardinality(ChildPlaces(list, id)) = 1
            /\ reply.field \in {"full_tree", "subtree"} =>
                  (root \in ids /\ ChildPlaces(list, root) = {})
            /\ reply.field = "descendants_tree" =>
                  \A r \in population :
                      r.parent_id = self.id =>
                          ChildPlaces(list, AnnotationGlobalId(r.id)) = {}

(***************************************************************************)
(* CorpusAction: the model class, its validation and its save.  A foreign  *)
(* key is modelled by the id it holds, None when it is null; the instance  *)
(* behind a non-null foreign key is truthy.  The columns other than        *)
(* fieldset, analyzer and trigger always hold valid values.                *)
(***************************************************************************)
MaxActionId == 2

ActionIds == 1..MaxActionId

\* CorpusActionTrigger.choices
CorpusActionTrigger == {"add_document", "edit_document"}

\* The values the code may assign to trigger: a choice, or the blank string.
TriggerValues == CorpusActionTrigger \cup {""}

\* The values the code may assign to fieldset and to analyzer: no object,
\* or a stored object.
ForeignKeyValues == {None, 1}

\* The CheckConstraint exactly_one_of_fieldset_or_analyzer:
\* Q(fieldset__isnull=False, analyzer__isnull=True)
\*   | Q(fieldset__isnull=True, analyzer__isnull=False)
exactly_one_of_fieldset_or_analyzer(row) ==
    \/ (row.fieldset # None /\ row.analyzer = None)
    \/ (row.fieldset = None /\ row.analyzer # None)

\* CorpusAction.clean
clean(inst) ==
    IF inst.fieldset # None /\ inst.analyzer # None
    THEN Raised("ValidationError")
    ELSE IF ~(inst.fieldset # None) /\ ~(inst.analyzer # None)
         THEN Raised("ValidationError")
         ELSE Returned(None)

\* Model.clean_fields: trigger is not blank and is one of the choices.
clean_fields(inst) ==
    IF inst.trigger \in CorpusActionTrigger
    THEN Returned(None)
    ELSE Raised("ValidationError")

\* Model.validate_constraints: the constraints of Meta, checked on the
\* values of the instance.
validate_constraints(inst) ==
    IF exactly_one_of_fieldset_or_analyzer(inst)
    THEN Returned(None)
    ELSE Raised("ValidationError")

\* A save that does not validate.
full_clean_skipped(inst) == Returned(None)

\* Model.full_clean: clean_fields, clean and validate_constraints all run;
\* their errors are collected and raised as one ValidationError.
full_clean(inst) ==
    IF \/ HasRaised(clean_fields(inst))
       \/ HasRaised(clean(inst))
       \/ HasRaised(validate_constraints(inst))
    THEN Raised("ValidationError")
    ELSE Returned(None)

AllFields == {"fieldset", "analyzer", "trigger"}

\* The update_fields argument of save: None for every column, or the list
\* of the columns to write.
UpdateFields ==
    {PyNone} \cup
    {PyList(l) : l \in {<<>>, <<"fieldset">>, <<"analyzer">>, <<"trigger">>,
                        <<"fieldset", "analyzer">>,
                        <<"fieldset", "analyzer", "trigger">>}}

ActionRow(pk) == CHOOSE r \in corpus_actions : r.id = pk

\* The row an UPDATE of the columns cols writes for the instance.
UpdatedRow(inst, cols) ==
    [c \in {"id", "fieldset", "analyzer", "trigger"} |->
        IF c \in cols THEN inst[c] ELSE ActionRow(inst.id)[c]]

\* Model.save(update_fields=update_fields): the table after the statement
\* and what the call returns.  An empty update_fields returns at once;
\* update_fields on an instance without primary key raises ValueError; a
\* row that breaks the CheckConstraint is refused with IntegrityError and
\* the statement changes nothing; the instance of a new row is inserted
\* under the next id.
super_save(inst, update_fields) ==
    IF update_fields = PyList(<<>>)
    THEN [table |-> corpus_actions, outcome |-> Returned(None), id |-> inst.id]
    ELSE IF inst.id = None
    THEN IF update_fields # PyNone
         THEN [table |-> corpus_actions, outcome |-> Raised("ValueError"), id |-> inst.id]
         ELSE LET row == [inst EXCEPT !.id = Cardinality(corpus_actions) + 1]
              IN  IF exactly_one_of_fieldset_or_analyzer(row)
                  THEN [table |-> corpus_actions \cup {row},
                        outcome |-> Returned(None), id |-> row.id]
                  ELSE [table |-> corpus_actions,
                        outcome |-> Raised("IntegrityError"), id |-> inst.id]
    ELSE LET row == UpdatedRow(inst, IF update_fields = PyNone THEN AllFields
                                     ELSE SeqToSet(update_fields.v))
         IN  IF exactly_one_of_fieldset_or_analyzer(row)
             THEN [table |-> (corpus_actions \ {ActionRow(inst.id)}) \cup {row},
                   outcome |-> Returned(None), id |-> inst.id]
             ELSE [table |-> corpus_actions,
                   outcome |-> Raised("IntegrityError"), id |-> inst.id]

\* CorpusAction.save: self.full_clean(); return super().save(*args, **kwargs)
save(inst, update_fields) ==
    IF HasRaised(full_clean(inst))
    THEN [table |-> corpus_actions, outcome |-> full_clean(inst), id |-> inst.id]
    ELSE super_save(inst, update_fields)

(***************************************************************************)
(* Specification of CorpusAction: instances are constructed or fetched,    *)
(* their attributes are assigned, and save is called on them.              *)
(***************************************************************************)
ActionInit ==
    /\ RestIdle
    /\ TreeIdle
    /\ FlatIdle
    /\ CodecIdle

\* CorpusAction(fieldset=f, analyzer=a, trigger=t)
NewCorpusAction(f, a, t) ==
    /\ corpus_action' = [id |-> None, fieldset |-> f, analyzer |-> a, trigger |-> t]
    /\ saved' = NotRun
    /\ UNCHANGED <<corpus_actions, treeVars, flatVars, codecVars, apiVars, frame, visible, previous>>

\* CorpusAction.objects.get(pk=pk)
GetCorpusAction(pk) ==
    /\ \E r \in corpus_actions : r.id = pk
    /\ corpus_action' = ActionRow(pk)
    /\ saved' = NotRun
    /\ UNCHANGED <<corpus_actions, treeVars, flatVars, codecVars, apiVars, frame, visible, previous>>

\* Assignments to the attributes of the instance before a save.
SetAttributes(f, a, t) ==
    /\ corpus_action # NoInstance
    /\ corpus_action' = [corpus_action EXCEPT !.fieldset = f, !.analyzer = a, !.trigger = t]
    /\ saved' = NotRun
    /\ UNCHANGED <<corpus_actions, treeVars, flatVars, codecVars, apiVars, frame, visible, previous>>

\* corpus_action.save(update_fields=update_fields); a new row is inserted
\* only while the table has room in the model.
Save(update_fields) ==
    /\ corpus_action # NoInstance
    /\ corpus_action.id = None => Cardinality(corpus_actions) < MaxActionId
    /\ LET result == save(corpus_action, update_fields)
       IN  /\ corpus_actions' = result.table
           /\ corpus_action' = [corpus_action EXCEPT !.id = result.id]
           /\ saved' = result.outcome
    /\ UNCHANGED <<treeVars, flatVars, codecVars, apiVars, frame, visible, previous>>

ActionNext ==
    \/ \E f \in ForeignKeyValues, a \in ForeignKeyValues, t \in TriggerValues :
           NewCorpusAction(f, a, t)
    \/ \E pk \in ActionIds : GetCorpusAction(pk)
    \/ \E f \in ForeignKeyValues, a \in ForeignKeyValues, t \in TriggerValues :
           SetAttributes(f, a, t)
    \/ \E update_fields \in UpdateFields : Save(update_fields)

SpecAction == ActionInit /\ [][ActionNext]_vars

(***************************************************************************)
(* Claim on CorpusAction, checked under SpecAction.                        *)
(***************************************************************************)
\* Both of fieldset and analyzer are set on the instance, or neither is.
BothOrNeitherSet ==
    (corpus_action.fieldset = None) = (corpus_action.analyzer = None)

\* A call of save has returned or raised in this step.
SaveStep == corpus_action # NoInstance /\ saved' # NotRun

\* C22: after any sequence of CorpusAction.save calls every persisted
\* CorpusAction has exactly one of fieldset and analyzer set; a save of an
\* instance with both set or neither set raises ValidationError (full_clean
\* runs first and clean raises), and a save that raises leaves the stored
\* records unchanged.
C22_ExactlyOneOfFieldsetAndAnalyzer ==
    /\ [](\A r \in corpus_actions : (r.fieldset = None) # (r.analyzer = None))
    /\ [][SaveStep =>
            /\ BothOrNeitherSet => saved' = Raised("ValidationError")
            /\ HasRaised(saved') => corpus_actions' = corpus_actions]_vars

\* A stored record fetched, given both a fieldset and an analyzer and saved:
\* the save has raised ValidationError, beside a second stored record of
\* the other kind.
C22_Witness ==
    /\ saved = Raised("ValidationError")
    /\ corpus_action # NoInstance
    /\ corpus_action.id # None
    /\ corpus_action.fieldset # None
    /\ corpus_action.analyzer # None
    /\ corpus_action.trigger \in CorpusActionTrigger
    /\ \E r \in corpus_actions : r.fieldset # None /\ r.analyzer = None
    /\ \E r \in corpus_actions : r.fieldset = None /\ r.analyzer # None

\* A save that wrote one column only: the instance holds an analyzer and no
\* fieldset, the stored record a fieldset, and the statement was refused.
C22_WitnessUpdateFields ==
    /\ saved = Raised("IntegrityError")
    /\ corpus_action # NoInstance
    /\ corpus_action.id # None
    /\ corpus_action.fieldset = None
    /\ corpus_action.analyzer # None
    /\ ActionRow(corpus_action.id).fieldset # None

====
